---- MODULE Spec2Model ----
(***************************************************************************)
(* Model of package filter (src/filter/rule.go): the three scopes Filter,  *)
(* Search and MultiSearch, the rule extraction from struct tags, the skip  *)
(* policy and the renderer parseRule.                                      *)
(*                                                                         *)
(* Representation.  A Go string is a sequence of lexemes (TLA+ strings):   *)
(* identifiers, single blanks, single punctuation marks, and the tag       *)
(* suffixes ",omitempty" / ",optional".  "" is <<>>.  Concatenation is \o. *)
(* The string functions below work lexeme by lexeme, which coincides with  *)
(* the byte-wise Go functions on the strings used here.                    *)
(* A reflect.Value / interface{} is a record [kind, str, int, isnil,       *)
(* elems]; a []string may be nil or empty-but-non-nil.                     *)
(***************************************************************************)
EXTENDS Integers, Sequences, FiniteSets, TLC

VARIABLES
    entry,       \* which constructor built the transform
    keyword,     \* the caller's own argument variable passed to MultiSearch
    dest,        \* the captured parameter dest (a struct value, or a string)
    rules,       \* the captured parameter rules (the caller's slice)
    db,          \* the query: the Where calls it has received, in order
    outcome,     \* "ready", "return" or "panic": how the last application ended
    conditions,  \* local conditions of the last application, at its end
    params,      \* local params of the last application, at its end
    calls,       \* the parseRule calls of the last application, in order
    applied      \* number of applications of the transform so far

vars == <<entry, keyword, dest, rules, db, outcome, conditions, params, calls, applied>>

\* ------------------------------------------------------------------ bounds
MaxFields == 2
MaxRules == 2
MaxApply == 2

\* ------------------------------------------------------------ Go strings
WhiteSpace == {" ", "\t"}

RECURSIVE TrimLeft(_, _)
TrimLeft(s, cutset) ==
    IF s # <<>> /\ Head(s) \in cutset THEN TrimLeft(Tail(s), cutset) ELSE s

RECURSIVE TrimRight(_, _)
TrimRight(s, cutset) ==
    IF s # <<>> /\ s[Len(s)] \in cutset
    THEN TrimRight(SubSeq(s, 1, Len(s) - 1), cutset)
    ELSE s

\* strings.Trim(s, cutset)
Trim(s, cutset) == TrimRight(TrimLeft(s, cutset), cutset)

\* strings.TrimSpace(s)
TrimSpace(s) == Trim(s, WhiteSpace)

\* strings.Index(s, a) for a one-lexeme a, 1-based; 0 when absent
Index(s, a) ==
    IF \E i \in 1..Len(s) : s[i] = a
    THEN CHOOSE i \in 1..Len(s) : s[i] = a /\ \A j \in 1..(i - 1) : s[j] # a
    ELSE 0

\* strings.Split(s, sep) for a one-lexeme sep
RECURSIVE Split(_, _)
Split(s, sep) ==
    LET i == Index(s, sep)
    IN  IF i = 0 THEN <<s>>
        ELSE <<SubSeq(s, 1, i - 1)>> \o Split(SubSeq(s, i + 1, Len(s)), sep)

\* strings.Join(elems, sep)
RECURSIVE Join(_, _)
Join(elems, sep) ==
    IF elems = <<>> THEN <<>>
    ELSE IF Len(elems) = 1 THEN elems[1]
    ELSE elems[1] \o sep \o Join(Tail(elems), sep)

removeOmitempty(tag) ==
    IF Index(tag, ",omitempty") # 0 THEN SubSeq(tag, 1, Index(tag, ",omitempty") - 1)
    ELSE IF Index(tag, ",optional") # 0 THEN SubSeq(tag, 1, Index(tag, ",optional") - 1)
    ELSE tag

\* strconv.ParseBool as called at the use_zero key: the accepted spellings
ParseBoolTrue == {<<"1">>, <<"t">>, <<"T">>, <<"TRUE">>, <<"true">>, <<"True">>}
ParseBoolFalse == {<<"0">>, <<"f">>, <<"F">>, <<"FALSE">>, <<"false">>, <<"False">>}
\* a faulty variant: a value that does not parse silently counts as false
ParseBoolErrIgnored(v) == FALSE
ParseBoolErr(v) == v \notin ParseBoolTrue \cup ParseBoolFalse
ParseBool(v) == v \in ParseBoolTrue

\* ---------------------------------------------------------- Go values
VStr(s) == [kind |-> "string", str |-> s, int |-> 0, isnil |-> FALSE, elems |-> <<>>]
VInt(i) == [kind |-> "int", str |-> <<>>, int |-> i, isnil |-> FALSE, elems |-> <<>>]
VSlice(isnil, elems) ==
    [kind |-> "[]string", str |-> <<>>, int |-> 0, isnil |-> isnil, elems |-> elems]

\* reflect.Value.IsZero
IsZero(v) ==
    CASE v.kind = "string" -> v.str = <<>>
      [] v.kind = "int" -> v.int = 0
      [] OTHER -> v.isnil

\* rfVal.Kind() == reflect.Slice && rfVal.Len() == 0
emptySlice(v) == v.kind = "[]string" /\ Len(v.elems) = 0

\* ------------------------------------------------------------ operators
Eq == <<"=">>
Like == <<"like">>
Rlike == <<"rlike">>
GT == <<">">>
LT == <<"<">>
GTE == <<">=">>
LTE == <<"<=">>
In == <<"in">>
DateRange == <<"date_range">>

Rule(name, opt, table, useZero) ==
    [Name |-> name, Opt |-> opt, Table |-> table, UseZero |-> useZero]

\* -------------------------------------------------------------- parseRule
\* a faulty variant: the table qualifier is dropped
ColumnUnqualified(rule) == rule.Name

\* rule.Name after the table qualifier is prepended
Column(rule) ==
    IF rule.Table # <<>> THEN rule.Table \o <<".">> \o rule.Name ELSE rule.Name

\* rule.Opt after the default is filled in
Operator(rule) == IF rule.Opt = <<>> THEN Eq ELSE rule.Opt

\* the parameter of a like rule
LikeParam(value) == VStr(<<"%">> \o value.str \o <<"%">>)

\* a faulty variant: only the start of the range is bound
DateRangeParamsStartOnly(dates) == <<VStr(dates[1] \o <<" ", "00:00:00">>)>>

\* the two parameters of a date_range rule
DateRangeParams(dates) ==
    <<VStr(dates[1] \o <<" ", "00:00:00">>), VStr(dates[2] \o <<" ", "23:59:59">>)>>

Rendered(conditions_, params_) ==
    [panic |-> FALSE, conditions |-> conditions_, params |-> params_]

Panicked(conditions_, params_) ==
    [panic |-> TRUE, conditions |-> conditions_, params |-> params_]

parseRule(rule, rfVal, conditions_, params_) ==
    LET name == Column(rule)
        opt == Operator(rule)
        value == rfVal
    IN  CASE opt = Eq ->
               Rendered(Append(conditions_, name \o <<" ", "=", " ", "?">>),
                        Append(params_, value))
          [] opt = Like ->
               IF value.kind # "string" THEN Panicked(conditions_, params_)
               ELSE Rendered(Append(conditions_, name \o <<" ", "like", " ", "?">>),
                             Append(params_, LikeParam(value)))
          [] opt = Rlike ->
               Rendered(Append(conditions_, name \o <<" ", "rlike", " ", "?">>),
                        Append(params_, value))
          [] opt = GT ->
               Rendered(Append(conditions_, name \o <<" ", ">", " ", "?">>),
                        Append(params_, value))
          [] opt = LT ->
               Rendered(Append(conditions_, name \o <<" ", "<", " ", "?">>),
                        Append(params_, value))
          [] opt = GTE ->
               Rendered(Append(conditions_, name \o <<" ", ">=", " ", "?">>),
                        Append(params_, value))
          [] opt = LTE ->
               Rendered(Append(conditions_, name \o <<" ", "<=", " ", "?">>),
                        Append(params_, value))
          [] opt = In ->
               Rendered(Append(conditions_, name \o <<" ", "in", " ", "(", "?", ")">>),
                        Append(params_, value))
          [] opt = DateRange ->
               IF value.kind # "[]string" THEN Panicked(conditions_, params_)
               ELSE IF Len(value.elems) # 2 THEN Panicked(conditions_, params_)
               ELSE Rendered(Append(conditions_,
                                    name \o <<" ", "between", " ", "?", " ", "and", " ", "?">>),
                             params_ \o DateRangeParams(value.elems))
          [] OTHER -> Rendered(conditions_, params_)

\* ------------------------------------------------------------- destMap
EmptyMap == [n \in {} |-> VInt(0)]

MapPut(m, k, v) == [n \in DOMAIN m \cup {k} |-> IF n = k THEN v ELSE m[n]]

\* --------------------------------------------------- results of a scope
\* db returned untouched by an early return
NoOp ==
    [outcome |-> "return", where |-> <<>>, conditions |-> <<>>, params |-> <<>>,
     calls |-> <<>>]

\* the scope panicked: nothing reached db.Where
Abort(conditions_, params_, calls_) ==
    [outcome |-> "panic", where |-> <<>>, conditions |-> conditions_,
     params |-> params_, calls |-> calls_]

\* queryStr := strings.Join(conditions, sep); db.Where(queryStr, params...)
Where(conditions_, params_, calls_, sep) ==
    [outcome |-> "return",
     where |-> <<[query |-> Join(conditions_, sep), args |-> params_]>>,
     conditions |-> conditions_, params |-> params_, calls |-> calls_]

AND == <<" ", "AND", " ">>
OR == <<" ", "OR", " ">>

IsStruct(d) == d.kind \in {"struct", "ptr"}

\* ----------------------------------------------------------------- Filter
\* one key:value pair of the filter tag applied to the rule
ApplyTag(rule, filterTag) ==
    LET kv == Split(filterTag, ":")
    IN  IF Len(kv) < 2 THEN [panic |-> TRUE, rule |-> rule]
        ELSE LET k == TrimSpace(kv[1])
                 v == TrimSpace(kv[2])
             IN  CASE k = <<"opt">> -> [panic |-> FALSE, rule |-> [rule EXCEPT !.Opt = v]]
                   [] k = <<"table">> -> [panic |-> FALSE, rule |-> [rule EXCEPT !.Table = v]]
                   [] k \in {<<"use_zero">>, <<"useZero">>} ->
                        IF ParseBoolErr(v) THEN [panic |-> TRUE, rule |-> rule]
                        ELSE [panic |-> FALSE, rule |-> [rule EXCEPT !.UseZero = ParseBool(v)]]
                   [] OTHER -> [panic |-> FALSE, rule |-> rule]

RECURSIVE ApplyTags(_, _, _)
ApplyTags(rule, filterTags, j) ==
    IF j > Len(filterTags) THEN [panic |-> FALSE, rule |-> rule]
    ELSE LET r == ApplyTag(rule, filterTags[j])
         IN  IF r.panic THEN r ELSE ApplyTags(r.rule, filterTags, j + 1)

\* the filter tag of a field after strings.Trim(filterTagStr, " ;,")
FilterTagStr(f) == Trim(f.filter, {" ", ";", ","})

\* the field is a rule source
HasFilterTag(f) == FilterTagStr(f) # <<>> /\ FilterTagStr(f) # <<"-">>

\* strings.TrimSpace(removeOmitempty(Tag.Get("json")))
JsonName(f) == TrimSpace(removeOmitempty(f.json))

\* the extraction loop over the fields, from field i on
RECURSIVE ExtractRules(_, _, _, _)
ExtractRules(fields, i, rules_, destMap) ==
    IF i > Len(fields) THEN [panic |-> FALSE, rules |-> rules_, destMap |-> destMap]
    ELSE IF ~HasFilterTag(fields[i]) THEN ExtractRules(fields, i + 1, rules_, destMap)
    ELSE LET name == JsonName(fields[i])
             dm == MapPut(destMap, name, fields[i].val)
             r == ApplyTags(Rule(name, <<>>, <<>>, FALSE),
                            Split(FilterTagStr(fields[i]), ";"), 1)
         IN  IF r.panic THEN [panic |-> TRUE, rules |-> rules_, destMap |-> dm]
             ELSE ExtractRules(fields, i + 1, Append(rules_, r.rule), dm)

\* a faulty variant: UseZero is ignored
FilterSkipsAlways(rule, rfVal) == IsZero(rfVal) \/ emptySlice(rfVal)

\* Filter's skip test
FilterSkips(rule, rfVal) == (IsZero(rfVal) \/ emptySlice(rfVal)) /\ ~rule.UseZero

\* the value Filter binds to a rule
FilterLookup(destMap, rule) == destMap[rule.Name]

RECURSIVE FilterLoop(_, _, _, _, _, _)
FilterLoop(rules_, destMap, i, conditions_, params_, calls_) ==
    IF i > Len(rules_)
    THEN Where(conditions_, params_, calls_, AND)
    ELSE LET rule == rules_[i]
             rfVal == FilterLookup(destMap, rule)
         IN  IF FilterSkips(rule, rfVal)
             THEN FilterLoop(rules_, destMap, i + 1, conditions_, params_, calls_)
             ELSE LET r == parseRule(rule, rfVal, conditions_, params_)
                      c == Append(calls_, [idx |-> i, rule |-> rule, value |-> rfVal])
                  IN  IF r.panic THEN Abort(conditions_, params_, c)
                      ELSE FilterLoop(rules_, destMap, i + 1, r.conditions, r.params, c)

Filter(dest_) ==
    IF ~IsStruct(dest_) THEN NoOp
    ELSE LET ex == ExtractRules(dest_.fields, 1, <<>>, EmptyMap)
         IN  IF ex.panic THEN Abort(<<>>, <<>>, <<>>)
             ELSE IF Len(ex.rules) = 0 THEN NoOp
             ELSE FilterLoop(ex.rules, ex.destMap, 1, <<>>, <<>>, <<>>)

\* ----------------------------------------------------------------- Search
RECURSIVE SearchDestMap(_, _, _)
SearchDestMap(fields, i, destMap) ==
    IF i > Len(fields) THEN destMap
    ELSE IF JsonName(fields[i]) # <<>>
    THEN SearchDestMap(fields, i + 1, MapPut(destMap, JsonName(fields[i]), fields[i].val))
    ELSE SearchDestMap(fields, i + 1, destMap)

\* a faulty variant: an empty sequence is skipped as in Filter
SearchSkipsEmpty(rule, rfVal) == (IsZero(rfVal) \/ emptySlice(rfVal)) /\ ~rule.UseZero

\* Search's skip test
SearchSkips(rule, rfVal) == IsZero(rfVal) /\ ~rule.UseZero

RECURSIVE SearchLoop(_, _, _, _, _, _)
SearchLoop(rules_, destMap, i, conditions_, params_, calls_) ==
    IF i > Len(rules_)
    THEN Where(conditions_, params_, calls_, AND)
    ELSE LET rule == rules_[i]
         IN  IF rule.Name \notin DOMAIN destMap
             THEN SearchLoop(rules_, destMap, i + 1, conditions_, params_, calls_)
             ELSE IF SearchSkips(rule, destMap[rule.Name])
             THEN SearchLoop(rules_, destMap, i + 1, conditions_, params_, calls_)
             ELSE LET rfVal == destMap[rule.Name]
                      r == parseRule(rule, rfVal, conditions_, params_)
                      c == Append(calls_, [idx |-> i, rule |-> rule, value |-> rfVal])
                  IN  IF r.panic THEN Abort(conditions_, params_, c)
                      ELSE SearchLoop(rules_, destMap, i + 1, r.conditions, r.params, c)

Search(rules_, dest_) ==
    IF ~IsStruct(dest_) THEN NoOp
    ELSE IF Len(rules_) = 0 THEN NoOp
    ELSE SearchLoop(rules_, SearchDestMap(dest_.fields, 1, EmptyMap), 1, <<>>, <<>>, <<>>)

\* ------------------------------------------------------------ MultiSearch
\* a faulty variant: the keyword is not trimmed
MultiSearchDestUntrimmed(dest_) == dest_

\* dest = strings.TrimSpace(dest): the assignment to the captured parameter
MultiSearchDest(dest_) == TrimSpace(dest_)

RECURSIVE MultiSearchLoop(_, _, _, _, _, _)
MultiSearchLoop(rules_, rfVal, i, conditions_, params_, calls_) ==
    IF i > Len(rules_)
    THEN Where(conditions_, params_, calls_, OR)
    ELSE LET r == parseRule(rules_[i], rfVal, conditions_, params_)
             c == Append(calls_, [idx |-> i, rule |-> rules_[i], value |-> rfVal])
         IN  IF r.panic THEN Abort(conditions_, params_, c)
             ELSE MultiSearchLoop(rules_, rfVal, i + 1, r.conditions, r.params, c)

\* the body of the scope after dest has been reassigned to d
MultiSearch(rules_, d) ==
    IF d = <<>> THEN NoOp
    ELSE IF Len(rules_) = 0 THEN NoOp
    ELSE MultiSearchLoop(rules_, VStr(d), 1, <<>>, <<>>, <<>>)

\* ------------------------------------------------------------------ inputs
\* struct fields: [json tag, filter tag, current value]
Field(json, filter, val) == [json |-> json, filter |-> filter, val |-> val]

Strings == {VStr(<<>>), VStr(<<"John">>)}
Ints == {VInt(0), VInt(20)}
Dates == <<<<"2024-01-01">>, <<"2024-01-31">>, <<"2024-02-29">>>>
Slices ==
    {VSlice(TRUE, <<>>), VSlice(FALSE, <<>>)}
    \cup {VSlice(FALSE, SubSeq(Dates, 1, n)) : n \in 1..3}
ShortSlices == {VSlice(TRUE, <<>>), VSlice(FALSE, <<>>), VSlice(FALSE, <<<<"7">>>>)}

\* fields of the structs handed to Filter (and to Search with the rules of the tags)
TaggedFields ==
    {Field(<<"name">>, <<"opt", ":", "rlike">>, v) : v \in Strings}
    \cup {Field(<<"age">>, <<"opt", ":", "=">>, v) : v \in Ints}
    \cup {Field(<<"name", ",omitempty">>,
                <<"opt", ":", "like", ";", "table", ":", "users">>, v) : v \in Strings}
    \cup {Field(<<"age">>, <<"opt", ":", "like", ";", "use_zero", ":", "true">>, v) : v \in Ints}
    \cup {Field(<<"days">>, <<"opt", ":", "date_range">>, v) : v \in Slices}
    \cup {Field(<<" ", "ids", ",optional">>,
                <<" ", "opt", " ", ":", " ", "in", " ", ";", "useZero", ":", "1", ";">>, v) :
            v \in ShortSlices}
    \cup {Field(<<"ids">>, <<"opt", ":", "in">>, v) : v \in ShortSlices}
    \cup {Field(<<>>, <<"opt", ":", ">">>, v) : v \in Ints}
    \cup {Field(<<"name">>, <<>>, v) : v \in Strings}
    \cup {Field(<<"age">>, <<"-">>, VInt(20))}
    \cup {Field(<<"name">>, <<"opt", ":", "=", ";", "use_zero", ":", "maybe">>, VStr(<<"John">>))}
    \cup {Field(<<"age">>, <<"opt", ":", "LIKE", ";", "use_zero", ":", "T">>, v) : v \in Ints}
    \cup {Field(<<"age">>, <<";", "table", ":", "users", ";">>, v) : v \in Ints}
    \cup {Field(<<"name">>, <<"opt">>, VStr(<<"John">>))}

\* fields of the structs handed to Search with an explicit rule list
PlainFields ==
    {Field(<<"name">>, <<>>, v) : v \in Strings}
    \cup {Field(<<"age", ",omitempty">>, <<>>, VInt(0))}
    \cup {Field(<<"ids">>, <<>>, v) : v \in ShortSlices}
    \cup {Field(<<>>, <<>>, VInt(20))}

\* explicit rule lists
SearchRules ==
    {Rule(<<"name">>, Rlike, <<>>, FALSE),
     Rule(<<"age">>, Eq, <<>>, TRUE),
     Rule(<<"ids">>, In, <<>>, FALSE),
     Rule(<<"ghost">>, Eq, <<>>, TRUE),
     Rule(<<>>, GT, <<>>, TRUE)}

MultiRules ==
    {Rule(<<"name">>, Rlike, <<>>, FALSE),
     Rule(<<"age">>, Eq, <<>>, FALSE),
     Rule(<<"name">>, Like, <<"users">>, FALSE),
     Rule(<<"age">>, <<>>, <<>>, FALSE),
     Rule(<<"name">>, <<"LIKE">>, <<>>, FALSE),
     Rule(<<"days">>, DateRange, <<>>, TRUE)}

Keywords ==
    {<<"keyword">>, <<>>, <<" ", "\t">>, <<" ", "kw", " ">>, <<"a", " ", "b">>}

SeqsUpTo(S, n) == UNION {[1..k -> S] : k \in 0..n}

\* dest any: a struct, a pointer to a struct, or something else
Structs(F) ==
    {[kind |-> "struct", fields |-> fs] : fs \in SeqsUpTo(F, MaxFields)}
    \cup {[kind |-> "ptr", fields |-> fs] : fs \in SeqsUpTo(F, 1)}
    \cup {[kind |-> "int", fields |-> <<>>]}

\* the rule list that repeats the struct's filter tags (<<>> when the tags do not parse)
TagRules(d) ==
    LET ex == ExtractRules(d.fields, 1, <<>>, EmptyMap)
    IN  IF ex.panic THEN <<>> ELSE ex.rules

\* ---------------------------------------------------------- specification
Fresh ==
    /\ db = <<>>
    /\ outcome = "ready"
    /\ conditions = <<>>
    /\ params = <<>>
    /\ calls = <<>>
    /\ applied = 0

\* scope := Filter(dest)
InitFilter ==
    /\ entry = "Filter"
    /\ dest \in Structs(TaggedFields)
    /\ rules = <<>>
    /\ keyword = <<>>
    /\ Fresh

\* scope := Search(rules, dest), with a caller's rule list
InitSearch ==
    /\ entry = "Search"
    /\ dest \in Structs(PlainFields)
    /\ rules \in SeqsUpTo(SearchRules, MaxRules)
    /\ keyword = <<>>
    /\ Fresh

\* scope := Search(rules, dest), the rule list repeating the struct's tags
InitSearchTags ==
    /\ entry = "Search"
    /\ dest \in Structs(TaggedFields)
    /\ rules = TagRules(dest)
    /\ keyword = <<>>
    /\ Fresh

\* scope := MultiSearch(rules, keyword)
InitMultiSearch ==
    /\ entry = "MultiSearch"
    /\ keyword \in Keywords
    /\ dest = keyword
    /\ rules \in SeqsUpTo(MultiRules, MaxRules)
    /\ Fresh

Init == InitFilter \/ InitSearch \/ InitSearchTags \/ InitMultiSearch

CanApply == outcome # "panic" /\ applied < MaxApply

Finish(r) ==
    /\ db' = db \o r.where
    /\ outcome' = r.outcome
    /\ conditions' = r.conditions
    /\ params' = r.params
    /\ calls' = r.calls
    /\ applied' = applied + 1

\* db.Scopes(Filter(dest)): the scope runs once
ApplyFilter ==
    /\ entry = "Filter"
    /\ CanApply
    /\ Finish(Filter(dest))
    /\ UNCHANGED <<entry, keyword, dest, rules>>

ApplySearch ==
    /\ entry = "Search"
    /\ CanApply
    /\ Finish(Search(rules, dest))
    /\ UNCHANGED <<entry, keyword, dest, rules>>

ApplyMultiSearch ==
    /\ entry = "MultiSearch"
    /\ CanApply
    /\ dest' = MultiSearchDest(dest)
    /\ Finish(MultiSearch(rules, dest'))
    /\ UNCHANGED <<entry, keyword, rules>>

Next == ApplyFilter \/ ApplySearch \/ ApplyMultiSearch

Spec == Init /\ [][Next]_vars

\* --------------------------------------------- parseRule called on its own
ParseRules ==
    {Rule(<<"name">>, opt, table, FALSE) :
        opt \in {Eq, Like, Rlike, GT, LT, GTE, LTE, In, DateRange,
                 <<>>, <<"LIKE">>, <<"!=">>},
        table \in {<<>>, <<"users">>}}

ParseValues == Strings \cup Ints \cup Slices

\* what the caller has accumulated before the call
Accumulated ==
    {[conditions |-> <<>>, params |-> <<>>],
     [conditions |-> <<<<"id", " ", "=", " ", "?">>>>, params |-> <<VInt(1)>>]}

InitParse ==
    /\ entry = "parseRule"
    /\ rules \in {<<r>> : r \in ParseRules}
    /\ dest \in ParseValues
    /\ keyword = <<>>
    /\ db = <<>>
    /\ outcome = "ready"
    /\ \E a \in Accumulated : conditions = a.conditions /\ params = a.params
    /\ calls = <<>>
    /\ applied = 0

\* conditions, params = parseRule(rule, rfVal, conditions, params)
CallParseRule ==
    /\ entry = "parseRule"
    /\ outcome = "ready"
    /\ LET r == parseRule(rules[1], dest, conditions, params)
       IN  /\ outcome' = IF r.panic THEN "panic" ELSE "return"
           /\ conditions' = r.conditions
           /\ params' = r.params
    /\ calls' = <<[idx |-> 1, rule |-> rules[1], value |-> dest]>>
    /\ applied' = applied + 1
    /\ UNCHANGED <<entry, keyword, dest, rules, db>>

NextParse == CallParseRule

SpecParse == InitParse /\ [][NextParse]_vars

\* ============================================================== properties
\* ---- the reference renderer of the specification (section 4.2)
SimpleOps == {<<"=">>, <<">">>, <<"<">>, <<">=">>, <<"<=">>, <<"rlike">>}

RefColumn(rule) ==
    IF rule.Table = <<>> THEN rule.Name ELSE rule.Table \o <<".">> \o rule.Name

RefOpt(rule) == IF rule.Opt = <<>> THEN <<"=">> ELSE rule.Opt

\* the fatal errors of rendering
RefAborts(rule, v) ==
    \/ RefOpt(rule) = <<"like">> /\ v.kind # "string"
    \/ RefOpt(rule) = <<"date_range">> /\ ~(v.kind = "[]string" /\ Len(v.elems) = 2)

\* the fragments (none or one) a rule renders to
RefFragments(rule) ==
    LET op == RefOpt(rule)
        col == RefColumn(rule)
    IN  IF op \in SimpleOps \cup {<<"like">>} THEN <<col \o <<" ">> \o op \o <<" ", "?">>>>
        ELSE IF op = <<"in">> THEN <<col \o <<" ", "in", " ", "(", "?", ")">>>>
        ELSE IF op = <<"date_range">>
        THEN <<col \o <<" ", "between", " ", "?", " ", "and", " ", "?">>>>
        ELSE <<>>

\* the parameters a rule binds, when rendering does not abort
RefParams(rule, v) ==
    LET op == RefOpt(rule)
    IN  IF op \in SimpleOps \cup {<<"in">>} THEN <<v>>
        ELSE IF op = <<"like">> THEN <<VStr(<<"%">> \o v.str \o <<"%">>)>>
        ELSE IF op = <<"date_range">>
        THEN <<VStr(v.elems[1] \o <<" ", "00:00:00">>), VStr(v.elems[2] \o <<" ", "23:59:59">>)>>
        ELSE <<>>

\* number of '?' placeholders in a string
Placeholders(s) == Cardinality({i \in 1..Len(s) : s[i] = "?"})

RECURSIVE SumPlaceholders(_, _)
SumPlaceholders(conds, n) ==
    IF n = 0 THEN 0 ELSE SumPlaceholders(conds, n - 1) + Placeholders(conds[n])

RECURSIVE Times(_, _)
Times(w, n) == IF n = 0 THEN <<>> ELSE w \o Times(w, n - 1)

Reaches(c) == RefFragments(c.rule) # <<>>

\* the parseRule calls of the last application that appended a fragment
Rendering == SelectSeq(calls, Reaches)

\* ---- C1
\* C1: whenever no rule produced a fragment, the application left the query
\* unmodified: db.Where was never called (with an empty condition string).
C1_NoFragmentLeavesQueryUnmodified ==
    (outcome = "return" /\ conditions = <<>>) => db = <<>>

\* ---- C2
\* C2: after an application that completes without aborting, len(params) is the
\* number of '?' in the fragments (and in the joined string handed to Where), and
\* the placeholders of the i-th fragment are bound, in order, to the parameters
\* of the rule that rendered it.
C2_ParamsAlignWithPlaceholders ==
    /\ \A j \in 1..Len(db) : Placeholders(db[j].query) = Len(db[j].args)
    /\ (entry # "parseRule" /\ outcome = "return") =>
          /\ Len(params) = SumPlaceholders(conditions, Len(conditions))
          /\ Len(Rendering) = Len(conditions)
          /\ \A i \in 1..Len(conditions) :
                LET off == SumPlaceholders(conditions, i - 1)
                IN  /\ conditions[i] = RefFragments(Rendering[i].rule)[1]
                    /\ SubSeq(params, off + 1, off + Placeholders(conditions[i]))
                          = RefParams(Rendering[i].rule, Rendering[i].value)

C2_Witness ==
    /\ outcome = "return"
    /\ Len(conditions) = 2
    /\ Len(params) = 3
    /\ Placeholders(conditions[1]) = 2
    /\ db # <<>>

\* ---- C8
\* C8: parseRule matches the reference renderer for every rule and value: it
\* aborts exactly on the fatal errors, and otherwise appends the reference
\* fragment and parameters (nothing for an unrecognised operator) after the
\* fragments and parameters accumulated before, which it leaves as they were.
C8_ParseRuleMatchesReference ==
    [][(entry = "parseRule" /\ outcome = "ready") =>
          IF RefAborts(rules[1], dest)
          THEN outcome' = "panic"
          ELSE /\ outcome' = "return"
               /\ conditions' = conditions \o RefFragments(rules[1])
               /\ params' = params \o RefParams(rules[1], dest)]_vars

C8_Witness ==
    /\ entry = "parseRule"
    /\ outcome = "return"
    /\ rules[1].Opt = DateRange
    /\ rules[1].Table # <<>>
    /\ Len(conditions) = 2
    /\ Len(params) = 3

\* ---- tag-driven mode
\* indices of the fields that are rule sources, in declaration order
Annotated(d) ==
    SelectSeq([i \in 1..Len(d.fields) |-> i], LAMBDA i : HasFilterTag(d.fields[i]))

\* rule k of the last application reached the renderer
Reached(k) == \E n \in 1..Len(calls) : calls[n].idx = k

FilterReturned == entry = "Filter" /\ outcome = "return" /\ IsStruct(dest)

\* ---- C3
\* C3: in Filter, a rule whose UseZero is false and whose field holds the zero
\* value or an empty sequence is not rendered; a rule whose UseZero is true is
\* rendered whatever its value.
C3_ZeroFieldsAreSkipped ==
    FilterReturned =>
        \A k \in 1..Len(Annotated(dest)) :
            LET f == dest.fields[Annotated(dest)[k]]
                rule == TagRules(dest)[k]
            IN  /\ (~rule.UseZero /\ (IsZero(f.val) \/ emptySlice(f.val))) => ~Reached(k)
                /\ rule.UseZero => Reached(k)

\* ---- C4
\* C4: Filter renders the active annotated fields in declaration order, joins
\* the fragments with " AND ", and binds to each rule the current value of the
\* very field the rule was derived from, whatever the fields' names are.
C4_FilterBindsOwnField ==
    (FilterReturned /\ TagRules(dest) # <<>>) =>
        /\ \A n \in 1..Len(calls) :
              /\ calls[n].value = dest.fields[Annotated(dest)[calls[n].idx]].val
              /\ calls[n].rule.Name = JsonName(dest.fields[Annotated(dest)[calls[n].idx]])
              /\ \A m \in 1..(n - 1) : calls[m].idx < calls[n].idx
        /\ db # <<>>
        /\ db[Len(db)] = [query |-> Join(conditions, <<" ", "AND", " ">>), args |-> params]

\* ---- C5
TagsParse(d) == ~ExtractRules(d.fields, 1, <<>>, EmptyMap).panic

\* Search was built from the rule list that repeats the struct's filter tags
SearchOfTags ==
    /\ entry = "Search"
    /\ outcome # "ready"
    /\ IsStruct(dest)
    /\ TagsParse(dest)
    /\ rules = TagRules(dest)

\* what Filter(dest) does to the same query after the same number of applications
SameAsFilter ==
    /\ outcome = Filter(dest).outcome
    /\ db = Times(Filter(dest).where, applied)

\* every annotated field has a non-empty serialization name that no un-annotated
\* field shares
AnnotatedNamesOwn(d) ==
    \A i \in 1..Len(d.fields) :
        HasFilterTag(d.fields[i]) =>
            /\ JsonName(d.fields[i]) # <<>>
            /\ \A j \in 1..Len(d.fields) :
                  ~HasFilterTag(d.fields[j]) => JsonName(d.fields[j]) # JsonName(d.fields[i])

\* no rule with UseZero false is bound to an empty, non-nil sequence
NoEmptySequenceBound(d) ==
    LET ex == ExtractRules(d.fields, 1, <<>>, EmptyMap)
    IN  \A k \in 1..Len(ex.rules) :
            ~ex.rules[k].UseZero =>
                ~(emptySlice(ex.destMap[ex.rules[k].Name])
                  /\ ~IsZero(ex.destMap[ex.rules[k].Name]))

\* C5 as stated: for a rule list that names the same fields as the tags (every
\* annotated field has a name of its own), Search attaches the same condition
\* string and parameters as Filter for every assignment of values.
C5_SearchEqualsFilter == (SearchOfTags /\ AnnotatedNamesOwn(dest)) => SameAsFilter

\* C5 amended: the same, for structs whose annotated fields have non-empty names
\* not shared with an un-annotated field, and for assignments that bind no rule
\* with UseZero false to an empty non-nil sequence.
C5_SearchEqualsFilterAmended ==
    (SearchOfTags /\ AnnotatedNamesOwn(dest) /\ NoEmptySequenceBound(dest)) => SameAsFilter

C5_Witness ==
    /\ SearchOfTags
    /\ AnnotatedNamesOwn(dest)
    /\ NoEmptySequenceBound(dest)
    /\ Len(rules) = 2
    /\ rules[1].Name # rules[2].Name
    /\ outcome = "return"
    /\ Len(conditions) = 1
    /\ Len(db) = 2

\* ---- C6
RECURSIVE AllFragments(_)
AllFragments(rs) ==
    IF rs = <<>> THEN <<>> ELSE RefFragments(Head(rs)) \o AllFragments(Tail(rs))

RECURSIVE AllParams(_, _)
AllParams(rs, v) ==
    IF rs = <<>> THEN <<>> ELSE RefParams(Head(rs), v) \o AllParams(Tail(rs), v)

MultiSearchApplied == entry = "MultiSearch" /\ outcome # "ready"

\* the caller's keyword is blank, or there are no rules
MultiSearchIdle == TrimSpace(keyword) = <<>> \/ rules = <<>>

\* every rule was handed to the renderer, in rule-list order, with value v
EveryRuleReached(v) ==
    /\ Len(calls) = Len(rules)
    /\ \A i \in 1..Len(rules) :
          calls[i] = [idx |-> i, rule |-> rules[i], value |-> v]

\* C6 as stated: with a non-blank keyword and a non-empty rule list every rule
\* is rendered (an unrecognised operator to nothing), in order, against the
\* keyword the caller supplied, and the fragments are joined with " OR ";
\* otherwise the transform is a no-op.
C6_MultiSearchRendersEveryRule ==
    MultiSearchApplied =>
        IF MultiSearchIdle
        THEN outcome = "return" /\ db = <<>>
        ELSE /\ outcome = "return"
             /\ EveryRuleReached(VStr(keyword))
             /\ conditions = AllFragments(rules)
             /\ params = AllParams(rules, VStr(keyword))
             /\ db = Times(<<[query |-> Join(conditions, <<" ", "OR", " ">>),
                              args |-> params]>>, applied)

\* C6 amended: the rules are rendered against the keyword with its surrounding
\* white space trimmed; a rule with an unrecognised operator is handed to the
\* renderer and contributes nothing; a date_range rule aborts the application;
\* no rule is dropped by the skip policy; a blank keyword or an empty rule list
\* is a no-op.
C6_MultiSearchRendersTrimmedKeyword ==
    MultiSearchApplied =>
        IF MultiSearchIdle
        THEN outcome = "return" /\ db = <<>>
        ELSE IF \E i \in 1..Len(rules) : RefOpt(rules[i]) = <<"date_range">>
        THEN outcome = "panic" /\ db = <<>>
        ELSE /\ outcome = "return"
             /\ EveryRuleReached(VStr(TrimSpace(keyword)))
             /\ conditions = AllFragments(rules)
             /\ params = AllParams(rules, VStr(TrimSpace(keyword)))
             /\ db = Times(<<[query |-> Join(conditions, <<" ", "OR", " ">>),
                              args |-> params]>>, applied)

C6_Witness ==
    /\ MultiSearchApplied
    /\ keyword = <<" ", "kw", " ">>
    /\ Len(rules) = 2
    /\ rules[1].Opt = <<"LIKE">>
    /\ rules[2].Opt = Like
    /\ Len(conditions) = 1
    /\ params = <<VStr(<<"%", "kw", "%">>)>>
    /\ Len(db) = 2

\* ---- C7
\* the filter tag of the field holds a use_zero / useZero value ParseBool rejects
MalformedFlag(f) ==
    /\ HasFilterTag(f)
    /\ \E n \in 1..Len(Split(FilterTagStr(f), ";")) :
          LET kv == Split(Split(FilterTagStr(f), ";")[n], ":")
          IN  /\ Len(kv) >= 2
              /\ TrimSpace(kv[1]) \in {<<"use_zero">>, <<"useZero">>}
              /\ TrimSpace(kv[2]) \notin
                    {<<"1">>, <<"t">>, <<"T">>, <<"TRUE">>, <<"true">>, <<"True">>,
                     <<"0">>, <<"f">>, <<"F">>, <<"FALSE">>, <<"false">>, <<"False">>}

\* C7: an application of Filter to a struct with a malformed use_zero flag, and
\* an application in which a date_range rule bound to anything but a 2-element
\* sequence or a like rule bound to a non-textual value reaches the renderer,
\* ends in a panic; and an application that panics has not called db.Where.
C7_FatalErrorsAbortBeforeWhere ==
    [][applied' = applied + 1 =>
          /\ (entry = "Filter" /\ IsStruct(dest)
                /\ \E i \in 1..Len(dest.fields) : MalformedFlag(dest.fields[i]))
                => outcome' = "panic"
          /\ (entry # "parseRule"
                /\ \E n \in 1..Len(calls') : RefAborts(calls'[n].rule, calls'[n].value))
                => outcome' = "panic"
          /\ outcome' = "panic" => db' = db]_vars

C7_Witness ==
    /\ entry = "Filter"
    /\ outcome = "panic"
    /\ Len(dest.fields) = 2
    /\ ~MalformedFlag(dest.fields[1])
    /\ MalformedFlag(dest.fields[2])
    /\ db = <<>>

\* ---- C9
SearchReturned == entry = "Search" /\ outcome = "return" /\ IsStruct(dest) /\ rules # <<>>

\* the fields whose resolved serialization name is name
Bearers(name) == {j \in 1..Len(dest.fields) : JsonName(dest.fields[j]) = name}

\* the last declared of them
LastBearer(name) == CHOOSE j \in Bearers(name) : \A m \in Bearers(name) : m <= j

\* C9 as stated: a rule is rendered if and only if its Name is the resolved
\* serialization name of some field and UseZero is true or that field's value is
\* not the exact zero value.
C9_SearchRendersIffMatched ==
    SearchReturned =>
        \A i \in 1..Len(rules) :
            Reached(i) <=>
                \E j \in Bearers(rules[i].Name) :
                    rules[i].UseZero \/ ~IsZero(dest.fields[j].val)

\* C9 amended: a rule is rendered if and only if its Name is non-empty and is
\* the resolved serialization name of some field, and UseZero is true or the
\* value of the last declared field of that name is not the exact zero value;
\* the rule is bound to that field's value.
C9_SearchRendersIffMatchedNonEmpty ==
    SearchReturned =>
        /\ \A i \in 1..Len(rules) :
              Reached(i) <=>
                  /\ rules[i].Name # <<>>
                  /\ Bearers(rules[i].Name) # {}
                  /\ rules[i].UseZero
                        \/ ~IsZero(dest.fields[LastBearer(rules[i].Name)].val)
        /\ \A n \in 1..Len(calls) :
              /\ calls[n].rule = rules[calls[n].idx]
              /\ calls[n].value = dest.fields[LastBearer(calls[n].rule.Name)].val

C9_Witness ==
    /\ SearchReturned
    /\ Len(rules) = 2
    /\ rules[1].Name = <<"ghost">>
    /\ ~rules[2].UseZero
    /\ Len(calls) = 1
    /\ emptySlice(calls[1].value)
    /\ ~IsZero(calls[1].value)
    /\ Len(conditions) = 1

\* ---- C10
\* C10: applying a transform changes nothing that outlives the call (the rule
\* list, the source struct and the captured values are as before), and a
\* repeated application attaches the same condition string and parameters.
C10_TransformIsPure ==
    [][applied' = applied + 1 =>
          /\ dest' = dest
          /\ rules' = rules
          /\ (applied >= 1 /\ outcome' = "return") =>
                /\ conditions' = conditions
                /\ params' = params
                /\ Len(db') * applied = Len(db) * (applied + 1)
                /\ \A j \in 1..Len(db') : db'[j] = db'[1]]_vars

====
